---- MODULE Spec2Model ----
(***************************************************************************)
(* AirDCC: the CC1101 transceiver driver (AirDcc.cpp / AirDcc.h) and the   *)
(* accessory-decoder sketch that drives it.                                *)
(*                                                                         *)
(* The driver is modelled statement by statement: every public method is a *)
(* list of Arduino primitives (digitalWrite, SPI.begin, delay,             *)
(* SPI.beginTransaction, SPI.transfer, SPI.endTransaction) and one action  *)
(* per primitive executes the statement the program counter points at.     *)
(* What the primitives put on the wires (select-line writes, MOSI bytes)   *)
(* is recorded in `bus`; the last value those bytes wrote to the PATABLE   *)
(* and CHAN registers and the last command strobe are kept beside it.      *)
(***************************************************************************)
EXTENDS Integers, Sequences, FiniteSets

(***************************************************************************)
(* Bounds of the model.                                                    *)
(***************************************************************************)
\* Largest channel argument a caller passes (16 is the last valid ordinal).
MaxChannelArg == 17
\* Largest power argument a caller passes (10 is the last valid ordinal).
MaxPowerArg == 11
\* The sketch is followed for this many milliseconds.
MaxMillis == 4000

ChannelArgs == 0..MaxChannelArg
PowerArgs == 0..MaxPowerArg

(***************************************************************************)
(* Defines and constants, AirDcc.cpp lines 35-58.                          *)
(***************************************************************************)
RX == 52        \* 0x34
TX == 53        \* 0x35
STOP == 54      \* 0x36
PATABLE == 62   \* 0x3E
CHAN == 10      \* 0x0A

\* Arduino pin levels.
LOW == 0
HIGH == 1

initData ==
  << 64, 46, 46, 13, 7, 211, 145, 255, 4,
     50, 0, 75, 6, 0, 34, 183, 85, 138,
     147, 0, 35, 59, 80, 7, 48, 24, 22,
     108, 3, 64, 145, 135, 107, 248, 86, 16,
     233, 42, 0, 31, 64, 0, 89, 127, 63,
     129, 53, 9 >>

channels ==
  << 75, 69, 51, 39, 27, 21, 15, 3, 94,
     88, 82, 62, 57, 44, 33, 137, 55 >>

powers ==
  << 3, 21, 28, 39, 102, 142, 137,
     205, 196, 193, 192 >>

\* "use 0x89 for rx mode", AirDcc.cpp line 78.
RxPowerCode == 137

\* delay(100) in startModem, AirDcc.cpp line 94.
SettleDelay == 100

\* What an array read past the end of a table may return: the byte that
\* happens to follow the table in memory.  Two representatives, neither an
\* entry of either table.
UndefBytes == {0, 255}

\* (mutant) the table index taken as one-based.
PowersAt_OneBased(i) == IF i \in 1..Len(powers) THEN {powers[i]} ELSE UndefBytes

\* channels[i] as the C++ evaluates it: the set of bytes the read may yield.
ChannelsAt(i) == IF i \in 0..(Len(channels) - 1) THEN {channels[i + 1]} ELSE UndefBytes

\* powers[i] as the C++ evaluates it.
PowersAt(i) == IF i \in 0..(Len(powers) - 1) THEN {powers[i + 1]} ELSE UndefBytes

\* The sketch's modem configuration, AirDCC_Accessory_Decoder.ino lines 87-89.
\* (`int tx = false` holds 0.)
gChannel == 6
gTx == 0
gPower == 0

\* NUM_ADDRESSES, AirDCC_Accessory_Decoder.ino line 66.
NUM_ADDRESSES == 4

\* delay(100) in setup and delay(500) in RestoreStates.
SetupDelay == 100
RestoreDelay == 500

\* "if (millis() - timer > 500)", AirDCC_Accessory_Decoder.ino line 242.
KeepAlivePeriod == 500

\* `uint8_t enablePin = 10`, the argument of the sketch's AirDcc constructor.
enablePin == 10

\* gAddresses as ConfigureDecoder fills it, lines 97-123.  The C++ array is
\* indexed from 0: accessory i is gAddresses[i + 1] here.
gAddresses ==
  << [address |-> 1, offPin |-> 18, onPin |-> 19, servoPin |-> 14,
      servoOffPos |-> 45, servoOnPos |-> 135],
     [address |-> 2, offPin |-> 3, onPin |-> 4, servoPin |-> 15,
      servoOffPos |-> 45, servoOnPos |-> 135],
     [address |-> 3, offPin |-> 5, onPin |-> 6, servoPin |-> 16,
      servoOffPos |-> 45, servoOnPos |-> 135],
     [address |-> 4, offPin |-> 8, onPin |-> 9, servoPin |-> 17,
      servoOffPos |-> 45, servoOnPos |-> 135] >>

Accessories == 0..(NUM_ADDRESSES - 1)
Acc(i) == gAddresses[i + 1]

\* The pins SetOutputs writes.
OutputPins == {Acc(i).offPin : i \in Accessories} \cup {Acc(i).onPin : i \in Accessories}

\* An EEPROM cell that was never written reads 0xFF.
EepromBlank == 255

\* The packets the DCC library hands to the handler: the board address, the
\* activate bit, and the data byte with the output pair in bits 1-2 and the
\* output of the pair in bit 0.  Board 1 carries decoder addresses 1..4,
\* board 2 carries 5..8.
PacketAddresses == {1, 2}
PacketData == 0..7

VARIABLES
  pinLevel,     \* level last written to the enable (CSN) pin
  _enable_pin,  \* AirDcc::_enable_pin
  _transmit,    \* AirDcc::_transmit (uint8_t holding a bool)
  _channel,     \* AirDcc::_channel
  _power,       \* AirDcc::_power
  spiBegun,     \* SPI.begin() has been called
  spiTxn,       \* inside SPI.beginTransaction ... SPI.endTransaction
  fn,           \* the AirDcc method executing, "none" between calls
  pc,           \* index of the next statement of fn
  args,         \* <<channel, transmit, power>> of the call in progress or last made
  powerCode,    \* locals of startModem / changeChannel
  channelCode,
  mode,
  oob,          \* locals whose value was read past the end of a table
  bus,          \* wire trace: <<"CSN", level>> writes and <<"MOSI", byte>> transfers
  oobSent,      \* a byte read past the end of a table went out on MOSI
  paWritten,    \* last value written to the PATABLE register (-1: none)
  chanWritten,  \* last value written to the CHAN register (-1: none)
  lastStrobe,   \* last command strobe sent (-1: none)
  started,      \* startModem has been called
  appPc,        \* the sketch's position; "off" when no sketch drives the handle
  millis,       \* Arduino millisecond clock (unsigned long, 32 bits)
  uptime,       \* ms the sketch has run
  timer,        \* the sketch's `timer`
  restoreIdx,   \* loop index i of RestoreStates
  sinceAlive,   \* ms since startModem returned or keepAlive was last called
  appCalls,     \* the transceiver calls the sketch has made, in order
  prevAlive,    \* wire trace of the keepAlive before this call; << >> when the
                \* call before was none, startModem or changeChannel
  gState,       \* gAddresses[i].state
  pins,         \* level of each accessory output pin
  servoPos,     \* angle last written to servo[i] (-1: none since reset)
  eeprom,       \* EEPROM cells 0 .. NUM_ADDRESSES - 1
  pkt,          \* <<address, activate, data>> handed to the packet handler
  hAddress,     \* the handler's `address` after decoding
  hState,       \* the handler's local `state`
  hIdx,         \* the handler's loop index i
  outAddr,      \* SetOutputs' parameter addr
  outPc,        \* next statement of SetOutputs (0: not running)
  lastSet       \* per accessory, the state the last handled packet addressed
                \* to it set, kept across restarts (-1: no packet yet)

handle == <<_enable_pin, _transmit, _channel, _power>>
locals == <<powerCode, channelCode, mode, oob>>
spi == <<spiBegun, spiTxn>>
written == <<paWritten, chanWritten, lastStrobe>>
clock == <<millis, uptime, sinceAlive>>
sketch == <<appPc, timer, restoreIdx, appCalls>>
decoder == <<gState, pins, servoPos, eeprom, pkt, hAddress, hState, hIdx, outAddr,
            outPc, lastSet>>
vars == <<pinLevel, handle, spi, fn, pc, args, locals, bus, oobSent, written,
          started, clock, sketch, prevAlive, decoder>>

(***************************************************************************)
(* The methods as statement lists.  A statement is <<primitive, operand,   *)
(* index>>; the operand names a constant, a local or a table.              *)
(***************************************************************************)
Stmt(kind, operand, idx) == <<kind, operand, idx>>

\* for (int i=0; i < sizeof(initData); i++) SPI.transfer(initData[i]);
SendSetupData == [i \in 1..Len(initData) |-> Stmt("SPI.transfer", "initData", i)]

\* (mutant) the channel register written before the power register.
startModemBody_ChannelBeforePower ==
  << Stmt("digitalWrite", "HIGH", 0),
     Stmt("SPI.begin", "", 0),
     Stmt("delay", "SettleDelay", 0),
     Stmt("SPI.beginTransaction", "", 0),
     Stmt("digitalWrite", "LOW", 0),
     Stmt("SPI.transfer", "STOP", 0),
     Stmt("digitalWrite", "HIGH", 0),
     Stmt("digitalWrite", "LOW", 0) >>
  \o SendSetupData \o
  << Stmt("digitalWrite", "HIGH", 0),
     Stmt("digitalWrite", "LOW", 0),
     Stmt("SPI.transfer", "CHAN", 0),
     Stmt("SPI.transfer", "channelCode", 0),
     Stmt("digitalWrite", "HIGH", 0),
     Stmt("digitalWrite", "LOW", 0),
     Stmt("SPI.transfer", "PATABLE", 0),
     Stmt("SPI.transfer", "powerCode", 0),
     Stmt("digitalWrite", "HIGH", 0),
     Stmt("digitalWrite", "LOW", 0),
     Stmt("SPI.transfer", "mode", 0),
     Stmt("digitalWrite", "HIGH", 0),
     Stmt("SPI.endTransaction", "", 0) >>

\* (mutant) the modem stopped first and left to settle afterwards.
startModemBody_DelayAfterStop ==
  << Stmt("digitalWrite", "HIGH", 0),
     Stmt("SPI.begin", "", 0),
     Stmt("SPI.beginTransaction", "", 0),
     Stmt("digitalWrite", "LOW", 0),
     Stmt("SPI.transfer", "STOP", 0),
     Stmt("digitalWrite", "HIGH", 0),
     Stmt("delay", "SettleDelay", 0),
     Stmt("digitalWrite", "LOW", 0) >>
  \o SendSetupData \o
  << Stmt("digitalWrite", "HIGH", 0),
     Stmt("digitalWrite", "LOW", 0),
     Stmt("SPI.transfer", "PATABLE", 0),
     Stmt("SPI.transfer", "powerCode", 0),
     Stmt("digitalWrite", "HIGH", 0),
     Stmt("digitalWrite", "LOW", 0),
     Stmt("SPI.transfer", "CHAN", 0),
     Stmt("SPI.transfer", "channelCode", 0),
     Stmt("digitalWrite", "HIGH", 0),
     Stmt("digitalWrite", "LOW", 0),
     Stmt("SPI.transfer", "mode", 0),
     Stmt("digitalWrite", "HIGH", 0),
     Stmt("SPI.endTransaction", "", 0) >>

\* AirDcc::startModem, lines 88-124 (lines 74-86 are the entry, below).
startModemBody ==
  << Stmt("digitalWrite", "HIGH", 0),
     Stmt("SPI.begin", "", 0),
     Stmt("delay", "SettleDelay", 0),
     Stmt("SPI.beginTransaction", "", 0),
     \* Stop the modem
     Stmt("digitalWrite", "LOW", 0),
     Stmt("SPI.transfer", "STOP", 0),
     Stmt("digitalWrite", "HIGH", 0),
     \* Send setup data
     Stmt("digitalWrite", "LOW", 0) >>
  \o SendSetupData \o
  << Stmt("digitalWrite", "HIGH", 0),
     \* Write PATABLE (power)
     Stmt("digitalWrite", "LOW", 0),
     Stmt("SPI.transfer", "PATABLE", 0),
     Stmt("SPI.transfer", "powerCode", 0),
     Stmt("digitalWrite", "HIGH", 0),
     \* Set channel
     Stmt("digitalWrite", "LOW", 0),
     Stmt("SPI.transfer", "CHAN", 0),
     Stmt("SPI.transfer", "channelCode", 0),
     Stmt("digitalWrite", "HIGH", 0),
     \* Set mode (rx/tx)
     Stmt("digitalWrite", "LOW", 0),
     Stmt("SPI.transfer", "mode", 0),
     Stmt("digitalWrite", "HIGH", 0),
     Stmt("SPI.endTransaction", "", 0) >>

\* (mutant) the channel changed without stopping the modem first.
changeChannelBody_NoStop ==
  << Stmt("SPI.begin", "", 0),
     Stmt("SPI.beginTransaction", "", 0),
     Stmt("digitalWrite", "LOW", 0),
     Stmt("SPI.transfer", "PATABLE", 0),
     Stmt("SPI.transfer", "powerCode", 0),
     Stmt("digitalWrite", "HIGH", 0),
     Stmt("digitalWrite", "LOW", 0),
     Stmt("SPI.transfer", "CHAN", 0),
     Stmt("SPI.transfer", "channelCode", 0),
     Stmt("digitalWrite", "HIGH", 0),
     Stmt("digitalWrite", "LOW", 0),
     Stmt("SPI.transfer", "mode", 0),
     Stmt("digitalWrite", "HIGH", 0),
     Stmt("SPI.endTransaction", "", 0) >>

\* (mutant) the channel changed and the modem left stopped.
changeChannelBody_NoMode ==
  << Stmt("SPI.begin", "", 0),
     Stmt("SPI.beginTransaction", "", 0),
     Stmt("digitalWrite", "LOW", 0),
     Stmt("SPI.transfer", "STOP", 0),
     Stmt("digitalWrite", "HIGH", 0),
     Stmt("digitalWrite", "LOW", 0),
     Stmt("SPI.transfer", "PATABLE", 0),
     Stmt("SPI.transfer", "powerCode", 0),
     Stmt("digitalWrite", "HIGH", 0),
     Stmt("digitalWrite", "LOW", 0),
     Stmt("SPI.transfer", "CHAN", 0),
     Stmt("SPI.transfer", "channelCode", 0),
     Stmt("digitalWrite", "HIGH", 0),
     Stmt("SPI.endTransaction", "", 0) >>

\* AirDcc::changeChannel, lines 138-165 (lines 132-136 are the entry).
changeChannelBody ==
  << Stmt("SPI.begin", "", 0),
     Stmt("SPI.beginTransaction", "", 0),
     \* Stop the modem
     Stmt("digitalWrite", "LOW", 0),
     Stmt("SPI.transfer", "STOP", 0),
     Stmt("digitalWrite", "HIGH", 0),
     \* Write the power PATABLE
     Stmt("digitalWrite", "LOW", 0),
     Stmt("SPI.transfer", "PATABLE", 0),
     Stmt("SPI.transfer", "powerCode", 0),
     Stmt("digitalWrite", "HIGH", 0),
     \* Set the new channel
     Stmt("digitalWrite", "LOW", 0),
     Stmt("SPI.transfer", "CHAN", 0),
     Stmt("SPI.transfer", "channelCode", 0),
     Stmt("digitalWrite", "HIGH", 0),
     \* Start the modem
     Stmt("digitalWrite", "LOW", 0),
     Stmt("SPI.transfer", "mode", 0),
     Stmt("digitalWrite", "HIGH", 0),
     Stmt("SPI.endTransaction", "", 0) >>

\* (mutant) the modem stopped before the mode is sent again.
keepAliveBody_StopFirst ==
  << Stmt("SPI.begin", "", 0),
     Stmt("SPI.beginTransaction", "", 0),
     Stmt("digitalWrite", "LOW", 0),
     Stmt("SPI.transfer", "STOP", 0),
     Stmt("digitalWrite", "HIGH", 0),
     Stmt("digitalWrite", "LOW", 0),
     Stmt("SPI.transfer", "_transmit ? TX : RX", 0),
     Stmt("digitalWrite", "HIGH", 0),
     Stmt("SPI.endTransaction", "", 0) >>

\* (mutant) the select line left low and the transaction left open.
keepAliveBody_NoRelease ==
  << Stmt("SPI.begin", "", 0),
     Stmt("SPI.beginTransaction", "", 0),
     Stmt("digitalWrite", "LOW", 0),
     Stmt("SPI.transfer", "_transmit ? TX : RX", 0) >>

\* AirDcc::keepAlive, lines 173-184.
keepAliveBody ==
  << Stmt("SPI.begin", "", 0),
     Stmt("SPI.beginTransaction", "", 0),
     Stmt("digitalWrite", "LOW", 0),
     \* if (_transmit) SPI.transfer(TX); else SPI.transfer(RX);
     Stmt("SPI.transfer", "_transmit ? TX : RX", 0),
     Stmt("digitalWrite", "HIGH", 0),
     Stmt("SPI.endTransaction", "", 0) >>

Body(f) ==
  CASE f = "startModem" -> startModemBody
    [] f = "changeChannel" -> changeChannelBody
    [] f = "keepAlive" -> keepAliveBody
    [] OTHER -> << >>

Running == fn # "none"
AtStmt(kind) == Running /\ pc <= Len(Body(fn)) /\ Body(fn)[pc][1] = kind
Operand == Body(fn)[pc][2]

\* The value of the operand of the statement at pc.
Arg ==
  LET s == Body(fn)[pc] IN
  CASE s[2] = "HIGH" -> HIGH
    [] s[2] = "LOW" -> LOW
    [] s[2] = "SettleDelay" -> SettleDelay
    [] s[2] = "STOP" -> STOP
    [] s[2] = "PATABLE" -> PATABLE
    [] s[2] = "CHAN" -> CHAN
    [] s[2] = "initData" -> initData[s[3]]
    [] s[2] = "powerCode" -> powerCode
    [] s[2] = "channelCode" -> channelCode
    [] s[2] = "mode" -> mode
    [] s[2] = "_transmit ? TX : RX" -> (IF _transmit # 0 THEN TX ELSE RX)
    [] OTHER -> 0

(***************************************************************************)
(* What the bytes sent so far have written.  A frame starts when the       *)
(* select line is written low; its first byte is a header (a command       *)
(* strobe such as RX, TX, STOP, or a register address such as PATABLE,     *)
(* CHAN), the byte after a register address is the value written to it.    *)
(***************************************************************************)
\* The bytes sent since the select line was last written.
FrameSoFar(b) ==
  LET writes == {k \in 1..Len(b) : b[k][1] = "CSN"}
      last == IF writes = {} THEN 0 ELSE CHOOSE k \in writes : \A j \in writes : k >= j
  IN [m \in 1..(Len(b) - last) |-> b[last + m][2]]

IsStrobe(byte) == byte \in {RX, TX, STOP}

\* The effect of `byte` arriving in a frame that so far holds `frame`.
Receive(frame, byte) ==
  IF frame = << >>
  THEN /\ lastStrobe' = IF IsStrobe(byte) THEN byte ELSE lastStrobe
       /\ UNCHANGED <<paWritten, chanWritten>>
  ELSE /\ paWritten' = IF frame = <<PATABLE>> THEN byte ELSE paWritten
       /\ chanWritten' = IF frame = <<CHAN>> THEN byte ELSE chanWritten
       /\ UNCHANGED lastStrobe

(***************************************************************************)
(* Time.  The driver never reads the clock; only a sketch does.  With no   *)
(* sketch running (appPc = "off") the clock is left alone.                 *)
(***************************************************************************)
\* An unsigned long is 32 bits wide: it is kept as <<high, low>> 16-bit
\* halves, and its arithmetic is modulo 2^32.
Half == 65536

U32(hi, lo) == <<hi % Half, lo % Half>>

\* a + n for a small non-negative n, as unsigned long.
U32Add(a, n) == U32(a[1] + ((a[2] + n) \div Half), a[2] + n)

\* (mutant) a difference that stops at zero instead of wrapping.
U32Sub_Saturating(a, b) ==
  IF a[1] < b[1] \/ (a[1] = b[1] /\ a[2] < b[2])
  THEN <<0, 0>>
  ELSE IF a[2] >= b[2]
       THEN U32(a[1] - b[1] + Half, a[2] - b[2])
       ELSE U32(a[1] - b[1] - 1 + Half, a[2] - b[2] + Half)

\* a - b, as unsigned long.
U32Sub(a, b) ==
  IF a[2] >= b[2]
  THEN U32(a[1] - b[1] + Half, a[2] - b[2])
  ELSE U32(a[1] - b[1] - 1 + Half, a[2] - b[2] + Half)

\* a > n for a small non-negative n.
U32Gt(a, n) == a[1] > 0 \/ a[2] > n

Elapse(ms) ==
  IF appPc = "off"
  THEN UNCHANGED clock
  ELSE /\ millis' = U32Add(millis, ms)
       /\ uptime' = uptime + ms
       /\ sinceAlive' = sinceAlive + ms

(***************************************************************************)
(* The Arduino primitives.                                                 *)
(***************************************************************************)
\* digitalWrite(_enable_pin, level)
DigitalWrite ==
  /\ AtStmt("digitalWrite")
  /\ pinLevel' = Arg
  /\ bus' = Append(bus, <<"CSN", Arg>>)
  /\ pc' = pc + 1
  /\ UNCHANGED <<handle, spi, fn, args, locals, oobSent, written, started, clock, sketch, prevAlive, decoder>>

SpiBegin ==
  /\ AtStmt("SPI.begin")
  /\ spiBegun' = TRUE
  /\ pc' = pc + 1
  /\ UNCHANGED <<pinLevel, handle, spiTxn, fn, args, locals, bus, oobSent, written,
                 started, clock, sketch, prevAlive, decoder>>

Delay ==
  /\ AtStmt("delay")
  /\ Elapse(Arg)
  /\ pc' = pc + 1
  /\ UNCHANGED <<pinLevel, handle, spi, fn, args, locals, bus, oobSent, written,
                 started, sketch, prevAlive, decoder>>

SpiBeginTransaction ==
  /\ AtStmt("SPI.beginTransaction")
  /\ spiTxn' = TRUE
  /\ pc' = pc + 1
  /\ UNCHANGED <<pinLevel, handle, spiBegun, fn, args, locals, bus, oobSent, written,
                 started, clock, sketch, prevAlive, decoder>>

\* SPI.transfer(byte): the byte is clocked out on MOSI; the chip takes it
\* only while it is selected.
SpiTransfer ==
  /\ AtStmt("SPI.transfer")
  /\ bus' = Append(bus, <<"MOSI", Arg>>)
  /\ oobSent' = (oobSent \/ Operand \in oob)
  /\ IF pinLevel = LOW
       THEN Receive(FrameSoFar(bus), Arg)
       ELSE UNCHANGED written
  /\ pc' = pc + 1
  /\ UNCHANGED <<pinLevel, handle, spi, fn, args, locals, started, clock, sketch, prevAlive, decoder>>

SpiEndTransaction ==
  /\ AtStmt("SPI.endTransaction")
  /\ spiTxn' = FALSE
  /\ pc' = pc + 1
  /\ UNCHANGED <<pinLevel, handle, spiBegun, fn, args, locals, bus, oobSent, written,
                 started, clock, sketch, prevAlive, decoder>>

\* The method returns to its caller.
Return ==
  /\ Running
  /\ pc = Len(Body(fn)) + 1
  /\ fn' = "none"
  /\ pc' = 0
  /\ sinceAlive' = (IF fn = "startModem" THEN 0 ELSE sinceAlive)
  /\ prevAlive' = (IF fn = "keepAlive" /\ appPc = "off" THEN bus ELSE prevAlive)
  /\ UNCHANGED <<pinLevel, handle, spi, args, locals, bus, oobSent, written, started,
                 millis, uptime, sketch, decoder>>

(***************************************************************************)
(* Method entries: the assignments before the first bus statement.         *)
(***************************************************************************)
\* Conversion of a bool argument to the uint8_t field.
BoolToU8(b) == IF b THEN 1 ELSE 0

\* AirDcc::startModem lines 72-86.
startModem(channel, transmit, power) ==
  /\ fn = "none"
  /\ fn' = "startModem"
  /\ pc' = 1
  /\ args' = <<channel, BoolToU8(transmit), power>>
  /\ _channel' = channel
  /\ _transmit' = BoolToU8(transmit)
  /\ _power' = power
  /\ \E cc \in ChannelsAt(channel) : channelCode' = cc
  /\ IF transmit
       THEN /\ mode' = TX
            /\ \E pw \in PowersAt(power) : powerCode' = pw
       ELSE /\ mode' = RX
            /\ powerCode' = RxPowerCode
  /\ oob' = (IF channel \in 0..(Len(channels) - 1) THEN {} ELSE {"channelCode"})
            \cup (IF transmit /\ power \notin 0..(Len(powers) - 1)
                    THEN {"powerCode"} ELSE {})
  /\ started' = TRUE
  /\ UNCHANGED <<pinLevel, _enable_pin, spi>>

\* (mutant) changeChannel falls back to the lowest power.
changeChannel_ResetsPower(channel) ==
  /\ fn = "none"
  /\ fn' = "changeChannel"
  /\ pc' = 1
  /\ args' = <<channel, 0, 0>>
  /\ _channel' = channel
  /\ _power' = 0
  /\ \E cc \in ChannelsAt(channel) : channelCode' = cc
  /\ \E pw \in PowersAt(0) : powerCode' = pw
  /\ mode' = (IF _transmit # 0 THEN TX ELSE RX)
  /\ oob' = (IF channel \in 0..(Len(channels) - 1) THEN {} ELSE {"channelCode"})
  /\ UNCHANGED <<pinLevel, _enable_pin, _transmit, spi, started>>

\* (mutant) the channel code looked up before the new channel is stored.
changeChannel_StaleChannelCode(channel) ==
  /\ fn = "none"
  /\ fn' = "changeChannel"
  /\ pc' = 1
  /\ args' = <<channel, 0, 0>>
  /\ _channel' = channel
  /\ \E cc \in ChannelsAt(_channel) : channelCode' = cc
  /\ \E pw \in PowersAt(_power) : powerCode' = pw
  /\ mode' = (IF _transmit # 0 THEN TX ELSE RX)
  /\ oob' = (IF _channel \in 0..(Len(channels) - 1) THEN {} ELSE {"channelCode"})
            \cup (IF _power \notin 0..(Len(powers) - 1) THEN {"powerCode"} ELSE {})
  /\ UNCHANGED <<pinLevel, _enable_pin, _transmit, _power, spi, started>>

\* AirDcc::changeChannel lines 130-136.
changeChannel(channel) ==
  /\ fn = "none"
  /\ fn' = "changeChannel"
  /\ pc' = 1
  /\ args' = <<channel, 0, 0>>
  /\ _channel' = channel
  /\ \E cc \in ChannelsAt(channel) : channelCode' = cc
  /\ \E pw \in PowersAt(_power) : powerCode' = pw
  /\ mode' = (IF _transmit # 0 THEN TX ELSE RX)
  /\ oob' = (IF channel \in 0..(Len(channels) - 1) THEN {} ELSE {"channelCode"})
            \cup (IF _power \notin 0..(Len(powers) - 1) THEN {"powerCode"} ELSE {})
  /\ UNCHANGED <<pinLevel, _enable_pin, _transmit, _power, spi, started>>

\* (mutant) keepAlive flips the stored direction.
keepAlive_TogglesDirection ==
  /\ fn = "none"
  /\ fn' = "keepAlive"
  /\ pc' = 1
  /\ args' = <<0, 0, 0>>
  /\ sinceAlive' = 0
  /\ _transmit' = 1 - _transmit
  /\ UNCHANGED <<pinLevel, _enable_pin, _channel, _power, spi, locals, started>>

\* AirDcc::keepAlive line 171: no locals, no assignments.
keepAlive ==
  /\ fn = "none"
  /\ fn' = "keepAlive"
  /\ pc' = 1
  /\ args' = <<0, 0, 0>>
  /\ sinceAlive' = 0
  /\ UNCHANGED <<pinLevel, handle, spi, locals, started>>

(***************************************************************************)
(* A caller that exercises the handle directly.  It watches the wires from *)
(* each call on, and what has been written from each startModem on.        *)
(***************************************************************************)
CallStartModem ==
  \E c \in ChannelArgs, t \in BOOLEAN, p \in PowerArgs :
    /\ appPc = "off"
    /\ startModem(c, t, p)
    /\ bus' = << >>
    /\ oobSent' = FALSE
    /\ paWritten' = -1 /\ chanWritten' = -1 /\ lastStrobe' = -1
    /\ prevAlive' = << >>
    /\ UNCHANGED <<clock, sketch, decoder>>

CallChangeChannel ==
  \E c \in ChannelArgs :
    /\ appPc = "off"
    /\ changeChannel(c)
    /\ bus' = << >>
    /\ oobSent' = FALSE
    /\ prevAlive' = << >>
    /\ UNCHANGED <<written, clock, sketch, decoder>>

CallKeepAlive ==
  /\ appPc = "off"
  /\ keepAlive
  /\ bus' = << >>
  /\ oobSent' = FALSE
  /\ UNCHANGED <<written, millis, uptime, sketch, prevAlive, decoder>>

\* AirDcc::AirDcc and the zero-initialised fields of a global handle.  The
\* pin is an output after pinMode; its level before the first digitalWrite
\* is whatever the port register holds.
InitDriver ==
  /\ pinLevel \in {LOW, HIGH}
  /\ _enable_pin = enablePin
  /\ _transmit = 0 /\ _channel = 0 /\ _power = 0
  /\ spiBegun = FALSE /\ spiTxn = FALSE
  /\ fn = "none" /\ pc = 0 /\ args = <<0, 0, 0>>
  /\ powerCode = 0 /\ channelCode = 0 /\ mode = 0 /\ oob = {}
  /\ bus = << >> /\ oobSent = FALSE
  /\ paWritten = -1 /\ chanWritten = -1 /\ lastStrobe = -1
  /\ started = FALSE
  /\ millis = <<0, 0>> /\ uptime = 0 /\ sinceAlive = 0
  /\ timer = <<0, 0>> /\ restoreIdx = 0 /\ appCalls = << >>
  /\ prevAlive = << >>

\* The sketch's globals and locals after reset: gAddresses zero-initialised,
\* the output pins low, no servo written.
InitDecoder ==
  /\ gState = [i \in Accessories |-> FALSE]
  /\ pins = [p \in OutputPins |-> LOW]
  /\ servoPos = [i \in Accessories |-> -1]
  /\ pkt = <<0, FALSE, 0>> /\ hAddress = 0 /\ hState = FALSE /\ hIdx = 0
  /\ outAddr = 0 /\ outPc = 0

\* A board whose EEPROM was never written, and no packet seen yet.
BlankBoard ==
  /\ eeprom = [i \in Accessories |-> EepromBlank]
  /\ lastSet = [i \in Accessories |-> -1]

Init == InitDriver /\ InitDecoder /\ BlankBoard /\ appPc = "off"

DriverStep ==
  \/ DigitalWrite
  \/ SpiBegin
  \/ Delay
  \/ SpiBeginTransaction
  \/ SpiTransfer
  \/ SpiEndTransaction
  \/ Return

Next ==
  \/ CallStartModem
  \/ CallChangeChannel
  \/ CallKeepAlive
  \/ DriverStep

Spec == Init /\ [][Next]_vars

(***************************************************************************)
(* The accessory-decoder sketch, AirDCC_Accessory_Decoder.ino: setup() and *)
(* loop() as far as they drive the transceiver and the clock.  Statements  *)
(* other than delay() take no time; from one pass of loop() to the next    *)
(* the clock advances by at most one millisecond, so the loop polls        *)
(* millis() at least once per millisecond.                                 *)
(***************************************************************************)
\* Conversion of an int argument to a uint8_t parameter.
IntToU8(n) == n % 256

\* setup() lines 220-223: Serial.begin, the packet handler, ConfigureDecoder().
ConfigureDecoder ==
  /\ appPc = "setup"
  /\ appPc' = "setup:delay"
  /\ UNCHANGED <<pinLevel, handle, spi, fn, pc, args, locals, bus, oobSent, written,
                 started, clock, timer, restoreIdx, appCalls, prevAlive, decoder>>

\* setup() line 224: delay(100).
SetupDelayStep ==
  /\ appPc = "setup:delay"
  /\ Elapse(SetupDelay)
  /\ appPc' = "setup:startModem"
  /\ UNCHANGED <<pinLevel, handle, spi, fn, pc, args, locals, bus, oobSent, written,
                 started, timer, restoreIdx, appCalls, prevAlive, decoder>>

\* setup() lines 225-228: DCC.SetupDecoder, Modem.startModem(channel, tx, power).
SetupStartModem ==
  /\ appPc = "setup:startModem"
  /\ startModem(IntToU8(gChannel), gTx # 0, IntToU8(gPower))
  /\ appCalls' = Append(appCalls, <<"startModem", IntToU8(gChannel), BoolToU8(gTx # 0),
                                    IntToU8(gPower)>>)
  /\ appPc' = "RestoreStates"
  /\ restoreIdx' = 0
  /\ UNCHANGED <<bus, oobSent, written, clock, timer, prevAlive, decoder>>

\* Everything the transceiver driver and its observers hold.
driver == <<pinLevel, handle, spi, fn, pc, args, locals, bus, oobSent, written, started,
            prevAlive>>

\* (mutant) a zero cell read as on.
U8ToBool_ZeroIsOn(b) == b = 0

\* Conversion of the byte EEPROM.read returns to the bool `state`.
U8ToBool(b) == b # 0

\* (mutant) both pins of the accessory written high-first.
OutputWrites_HighFirst(addr) ==
  IF gState[addr]
  THEN << <<Acc(addr).onPin, HIGH>>, <<Acc(addr).offPin, LOW>> >>
  ELSE << <<Acc(addr).offPin, HIGH>>, <<Acc(addr).onPin, LOW>> >>

\* SetOutputs(addr), the digitalWrite calls in order, each <<pin, level>>.
OutputWrites(addr) ==
  IF gState[addr]
  THEN << <<Acc(addr).offPin, LOW>>, <<Acc(addr).onPin, HIGH>> >>
  ELSE << <<Acc(addr).onPin, LOW>>, <<Acc(addr).offPin, HIGH>> >>

\* SetOutputs(addr), the angle of its servo[addr].write.
ServoTarget(addr) ==
  IF gState[addr] THEN Acc(addr).servoOnPos ELSE Acc(addr).servoOffPos

\* RestoreStates() lines 175-178: the state is read from the accessory's
\* cell and SetOutputs(i) is called.
RestoreStates ==
  /\ appPc = "RestoreStates"
  /\ fn = "none"
  /\ restoreIdx < NUM_ADDRESSES
  /\ gState' = [gState EXCEPT ![restoreIdx] = U8ToBool(eeprom[restoreIdx])]
  /\ outAddr' = restoreIdx
  /\ outPc' = 1
  /\ appPc' = "RestoreStates:SetOutputs"
  /\ UNCHANGED <<driver, clock, timer, restoreIdx, appCalls, pins, servoPos, eeprom, pkt,
                 hAddress, hState, hIdx, lastSet>>

\* SetOutputs(addr) lines 154-168, one statement at a time: the two
\* digitalWrite calls, then the servo write and the return to the caller.
SetOutputs ==
  /\ appPc \in {"RestoreStates:SetOutputs", "handler:SetOutputs"}
  /\ IF outPc <= Len(OutputWrites(outAddr))
       THEN /\ pins' = [pins EXCEPT ![OutputWrites(outAddr)[outPc][1]] =
                                       OutputWrites(outAddr)[outPc][2]]
            /\ outPc' = outPc + 1
            /\ UNCHANGED <<servoPos, appPc>>
       ELSE /\ servoPos' = [servoPos EXCEPT ![outAddr] = ServoTarget(outAddr)]
            /\ outPc' = 0
            /\ appPc' = (IF appPc = "RestoreStates:SetOutputs"
                           THEN "RestoreStates:delay" ELSE "handler:update")
            /\ UNCHANGED pins
  /\ UNCHANGED <<driver, clock, timer, restoreIdx, appCalls, gState, eeprom, pkt,
                 hAddress, hState, hIdx, outAddr, lastSet>>

\* RestoreStates() lines 179-183: the prints, delay(500), the next i.
RestoreDelayStep ==
  /\ appPc = "RestoreStates:delay"
  /\ Elapse(RestoreDelay)
  /\ restoreIdx' = restoreIdx + 1
  /\ appPc' = "RestoreStates"
  /\ UNCHANGED <<driver, timer, appCalls, decoder>>

\* setup() line 231: timer = millis().
SetupLoadTimer ==
  /\ appPc = "RestoreStates"
  /\ fn = "none"
  /\ restoreIdx >= NUM_ADDRESSES
  /\ timer' = millis
  /\ appPc' = "loop"
  /\ UNCHANGED <<pinLevel, handle, spi, fn, pc, args, locals, bus, oobSent, written,
                 started, clock, restoreIdx, appCalls, prevAlive, decoder>>

\* loop() line 239: DCC.loop().
LoopDcc ==
  /\ appPc = "loop"
  /\ appPc' = "loop:check"
  /\ UNCHANGED <<pinLevel, handle, spi, fn, pc, args, locals, bus, oobSent, written,
                 started, clock, timer, restoreIdx, appCalls, prevAlive, decoder>>

\* (mutant) the modem started again where it should be kept alive.
LoopCheckTimer_Restart ==
  /\ appPc = "loop:check"
  /\ IF U32Gt(U32Sub(millis, timer), KeepAlivePeriod)
       THEN /\ startModem(IntToU8(gChannel), gTx # 0, IntToU8(gPower))
            /\ appCalls' = Append(appCalls, <<"startModem", IntToU8(gChannel),
                                              BoolToU8(gTx # 0), IntToU8(gPower)>>)
            /\ appPc' = "loop:timer"
            /\ UNCHANGED <<bus, oobSent, written, clock, timer, restoreIdx, prevAlive, decoder>>
       ELSE /\ appPc' = "loop:return"
            /\ UNCHANGED <<pinLevel, handle, spi, fn, pc, args, locals, bus, oobSent,
                           written, started, clock, timer, restoreIdx, appCalls, prevAlive, decoder>>

\* loop() lines 242-244: if (millis() - timer > 500) Modem.keepAlive();
LoopCheckTimer ==
  /\ appPc = "loop:check"
  /\ IF U32Gt(U32Sub(millis, timer), KeepAlivePeriod)
       THEN /\ keepAlive
            /\ appCalls' = Append(appCalls, <<"keepAlive", 0, 0, 0>>)
            /\ appPc' = "loop:timer"
            /\ UNCHANGED <<bus, oobSent, written, millis, uptime, timer, restoreIdx, prevAlive, decoder>>
       ELSE /\ appPc' = "loop:return"
            /\ UNCHANGED <<pinLevel, handle, spi, fn, pc, args, locals, bus, oobSent,
                           written, started, clock, timer, restoreIdx, appCalls, prevAlive, decoder>>

\* loop() line 245: timer = millis().
LoopReloadTimer ==
  /\ appPc = "loop:timer"
  /\ fn = "none"
  /\ timer' = millis
  /\ appPc' = "loop:return"
  /\ UNCHANGED <<pinLevel, handle, spi, fn, pc, args, locals, bus, oobSent, written,
                 started, clock, restoreIdx, appCalls, prevAlive, decoder>>

\* loop() returns and is called again ms milliseconds later.
LoopReturnAfter(ms) ==
  /\ appPc = "loop:return"
  /\ uptime + ms <= MaxMillis
  /\ Elapse(ms)
  /\ appPc' = "loop"
  /\ UNCHANGED <<pinLevel, handle, spi, fn, pc, args, locals, bus, oobSent, written,
                 started, timer, restoreIdx, appCalls, prevAlive, decoder>>

\* loop() returns and is called again, at most a millisecond later.
LoopReturn == \E ms \in {0, 1} : LoopReturnAfter(ms)

InitApp == InitDriver /\ InitDecoder /\ BlankBoard /\ appPc = "setup"

SketchStep ==
  \/ ConfigureDecoder
  \/ SetupDelayStep
  \/ SetupStartModem
  \/ RestoreStates
  \/ SetOutputs
  \/ RestoreDelayStep
  \/ SetupLoadTimer
  \/ LoopDcc
  \/ LoopCheckTimer
  \/ LoopReloadTimer
  \/ LoopReturn

NextApp == SketchStep \/ DriverStep

SpecApp == InitApp /\ [][NextApp]_vars

(***************************************************************************)
(* The sketch's accessories: packets reach the handler from DCC.loop(),    *)
(* the board can be reset at any moment, and its EEPROM outlives the       *)
(* reset.  Here loop() is called again with no millisecond gone by, so the *)
(* keepAlive of loop() never falls due; it touches no accessory.           *)
(***************************************************************************)
\* (mutant) the output pair of the data byte ignored.
DecodeAddress_NoPair(address, data) == (address - 1) * 4 + 1

\* The handler's lines 192-195: the decoder address of board address
\* `address` and the output pair in bits 1-2 of `data`.
DecodeAddress(address, data) == (address - 1) * 4 + 1 + ((data \div 2) % 4)

\* The handler's line 198: (activate == (data & 0x01)) ? 0 : 1, the bool
\* promoted to int for the comparison.
DecodeState(activate, data) == BoolToU8(activate) # data % 2

\* loop() line 239: DCC.loop() has a packet and calls the handler with it.
LoopDccPacket ==
  \E address \in PacketAddresses, activate \in BOOLEAN, data \in PacketData :
    /\ appPc = "loop"
    /\ pkt' = <<address, activate, data>>
    /\ appPc' = "handler"
    /\ UNCHANGED <<driver, clock, timer, restoreIdx, appCalls, gState, pins, servoPos,
                   eeprom, hAddress, hState, hIdx, outAddr, outPc, lastSet>>

\* BasicAccDecoderPacket_Handler lines 192-203: address, state, i = 0.
HandlerDecode ==
  /\ appPc = "handler"
  /\ hAddress' = DecodeAddress(pkt[1], pkt[3])
  /\ hState' = DecodeState(pkt[2], pkt[3])
  /\ hIdx' = 0
  /\ appPc' = "handler:loop"
  /\ UNCHANGED <<driver, clock, timer, restoreIdx, appCalls, gState, pins, servoPos,
                 eeprom, pkt, outAddr, outPc, lastSet>>

\* Lines 203-208: the loop test, the address test, the state stored and
\* SetOutputs(i) called; past the last accessory the handler and DCC.loop()
\* return and the handler's parameters and locals are gone.
HandlerLoop ==
  /\ appPc = "handler:loop"
  /\ IF hIdx < NUM_ADDRESSES
       THEN IF hAddress = Acc(hIdx).address
              THEN /\ gState' = [gState EXCEPT ![hIdx] = hState]
                   /\ outAddr' = hIdx
                   /\ outPc' = 1
                   /\ appPc' = "handler:SetOutputs"
                   /\ UNCHANGED <<hIdx, pkt, hAddress, hState>>
              ELSE /\ hIdx' = hIdx + 1
                   /\ UNCHANGED <<gState, outAddr, outPc, appPc, pkt, hAddress, hState>>
       ELSE /\ appPc' = "loop:check"
            /\ pkt' = <<0, FALSE, 0>> /\ hAddress' = 0 /\ hState' = FALSE /\ hIdx' = 0
            /\ UNCHANGED <<gState, outAddr, outPc>>
  /\ UNCHANGED <<driver, clock, timer, restoreIdx, appCalls, pins, servoPos, eeprom,
                 lastSet>>

\* Line 209: EEPROM.update(i, state), then i++.  The packet is handled for
\* accessory i: lastSet records the state it set.
HandlerUpdate ==
  /\ appPc = "handler:update"
  /\ eeprom' = [eeprom EXCEPT ![hIdx] = BoolToU8(hState)]
  /\ lastSet' = [lastSet EXCEPT ![hIdx] = BoolToU8(hState)]
  /\ hIdx' = hIdx + 1
  /\ appPc' = "handler:loop"
  /\ UNCHANGED <<driver, clock, timer, restoreIdx, appCalls, gState, pins, servoPos,
                 pkt, hAddress, hState, outAddr, outPc>>

\* Reset or power cycle: RAM, pins, clock and handle are as at power-up and
\* setup() runs again; the EEPROM keeps its cells.
Restart ==
  /\ appPc # "setup"
  /\ pinLevel' \in {LOW, HIGH}
  /\ _enable_pin' = enablePin
  /\ _transmit' = 0 /\ _channel' = 0 /\ _power' = 0
  /\ spiBegun' = FALSE /\ spiTxn' = FALSE
  /\ fn' = "none" /\ pc' = 0 /\ args' = <<0, 0, 0>>
  /\ powerCode' = 0 /\ channelCode' = 0 /\ mode' = 0 /\ oob' = {}
  /\ bus' = << >> /\ oobSent' = FALSE
  /\ paWritten' = -1 /\ chanWritten' = -1 /\ lastStrobe' = -1
  /\ started' = FALSE
  /\ millis' = <<0, 0>> /\ uptime' = 0 /\ sinceAlive' = 0
  /\ timer' = <<0, 0>> /\ restoreIdx' = 0 /\ appCalls' = << >>
  /\ prevAlive' = << >>
  /\ gState' = [i \in Accessories |-> FALSE]
  /\ pins' = [p \in OutputPins |-> LOW]
  /\ servoPos' = [i \in Accessories |-> -1]
  /\ pkt' = <<0, FALSE, 0>> /\ hAddress' = 0 /\ hState' = FALSE /\ hIdx' = 0
  /\ outAddr' = 0 /\ outPc' = 0
  /\ appPc' = "setup"
  /\ UNCHANGED <<eeprom, lastSet>>

\* What a cell can hold at power-up: never written, or a state written by
\* an earlier run.
EepromAtPowerUp == {0, 1, EepromBlank}

InitAcc ==
  /\ InitDriver /\ InitDecoder
  /\ eeprom \in [Accessories -> EepromAtPowerUp]
  /\ lastSet = [i \in Accessories |-> -1]
  /\ appPc = "setup"

NextAcc ==
  \/ ConfigureDecoder
  \/ SetupDelayStep
  \/ SetupStartModem
  \/ RestoreStates
  \/ SetOutputs
  \/ RestoreDelayStep
  \/ SetupLoadTimer
  \/ LoopDcc
  \/ LoopDccPacket
  \/ HandlerDecode
  \/ HandlerLoop
  \/ HandlerUpdate
  \/ LoopCheckTimer
  \/ LoopReturnAfter(0)
  \/ Restart
  \/ DriverStep

SpecAcc == InitAcc /\ [][NextAcc]_vars

(***************************************************************************)
(* The sketch 49.7 days after reset, when millis() is about to wrap.  The  *)
(* loop has just reloaded `timer`, WrapLeads milliseconds before the wrap; *)
(* the handle is as startModem(6, false, 0) and the keepAlives since have  *)
(* left it, the accessories as restored from a blank EEPROM.  `uptime`     *)
(* counts from this moment.  loop() is called again and again, and its     *)
(* statements and those of keepAlive are always executed in the end.       *)
(***************************************************************************)
WrapLeads == {1, 250, 501}

InitWrap ==
  /\ pinLevel = HIGH
  /\ _enable_pin = enablePin
  /\ _transmit = BoolToU8(gTx # 0) /\ _channel = IntToU8(gChannel)
  /\ _power = IntToU8(gPower)
  /\ spiBegun = TRUE /\ spiTxn = FALSE
  /\ fn = "none" /\ pc = 0 /\ args = <<0, 0, 0>>
  /\ powerCode = RxPowerCode /\ channelCode = channels[gChannel + 1] /\ mode = RX
  /\ oob = {}
  /\ bus = << >> /\ oobSent = FALSE
  /\ paWritten = RxPowerCode /\ chanWritten = channels[gChannel + 1] /\ lastStrobe = RX
  /\ started = TRUE
  /\ \E lead \in WrapLeads : millis = <<Half - 1, Half - lead>>
  /\ timer = millis
  /\ uptime = 0 /\ sinceAlive = 0
  /\ restoreIdx = NUM_ADDRESSES /\ appCalls = << >>
  /\ prevAlive = << >>
  /\ gState = [i \in Accessories |-> TRUE]
  /\ pins = [p \in OutputPins |->
               IF p \in {Acc(i).onPin : i \in Accessories} THEN HIGH ELSE LOW]
  /\ servoPos = [i \in Accessories |-> Acc(i).servoOnPos]
  /\ pkt = <<0, FALSE, 0>> /\ hAddress = 0 /\ hState = FALSE /\ hIdx = 0
  /\ outAddr = NUM_ADDRESSES - 1 /\ outPc = 0
  /\ BlankBoard
  /\ appPc = "loop:return"

NextWrap ==
  \/ LoopDcc
  \/ LoopCheckTimer
  \/ LoopReloadTimer
  \/ LoopReturn
  \/ SpiBegin
  \/ SpiBeginTransaction
  \/ DigitalWrite
  \/ SpiTransfer
  \/ SpiEndTransaction
  \/ Return

SpecWrap == InitWrap /\ [][NextWrap]_vars /\ WF_vars(NextWrap)

(***************************************************************************)
(* Reading the wire trace: the select-line-framed transactions.            *)
(***************************************************************************)
\* The positions of the select-line writes of trace b.
CsnAt(b) == {k \in 1..Len(b) : b[k][1] = "CSN"}

\* The first select-line write after position k (Len(b) + 1: none).
NextCsn(b, k) ==
  LET later == {j \in CsnAt(b) : j > k} IN
  IF later = {} THEN Len(b) + 1 ELSE CHOOSE j \in later : \A i \in later : j <= i

\* The last select-line write before position k (0: none).
PrevCsn(b, k) ==
  LET earlier == {j \in CsnAt(b) : j < k} IN
  IF earlier = {} THEN 0 ELSE CHOOSE j \in earlier : \A i \in earlier : j >= i

\* A frame opens at a low write and is closed by the next write, a high one.
Opens(b) == {k \in CsnAt(b) : b[k][2] = LOW}
Closed(b) == {k \in Opens(b) : NextCsn(b, k) <= Len(b) /\ b[NextCsn(b, k)][2] = HIGH}

\* The bytes of the frame that opens at position k.
FrameAt(b, k) == [m \in 1..(NextCsn(b, k) - k - 1) |-> b[k + m][2]]

\* The completed transactions of a trace in order, each the sequence of its
\* bytes.
Transactions(b) ==
  [n \in 1..Cardinality(Closed(b)) |->
     FrameAt(b, CHOOSE k \in Closed(b) : Cardinality({j \in Closed(b) : j < k}) = n - 1)]

\* Every byte lies inside a frame (the write before it is a low one) and
\* every frame is closed by a high write.
WellFramed(b) ==
  /\ \A k \in 1..Len(b) :
       b[k][1] = "MOSI" => (PrevCsn(b, k) > 0 /\ b[PrevCsn(b, k)][2] = LOW)
  /\ Opens(b) = Closed(b)

\* The method f has executed its last statement and is about to return.
AtReturn(f) == fn = f /\ pc = Len(Body(f)) + 1

\* The handle is exercised directly, so `bus` holds the current call only.
Direct == appPc = "off"

ValidChannel(c) == c \in 0..16
ValidPower(p) == p \in 0..10
ModeCode(t) == IF t # 0 THEN 53 ELSE 52

\* The number of transactions of T equal to frame.
CountOf(T, frame) == Cardinality({k \in 1..Len(T) : T[k] = frame})

(***************************************************************************)
(* C1.  For every channel c in 0..16 and every power argument p,           *)
(* startModem(c, Receive, p) issues exactly five framed transactions, in   *)
(* this order: [STOP 0x36], [the 48 bytes of the configuration blob],      *)
(* [PATABLE 0x3E, 0x89], [CHAN 0x0A, channelTable[c]], [RX 0x34]; each in  *)
(* its own select-low / select-high bracket, and no other byte is sent.    *)
(***************************************************************************)
C1_StartModemReceiveSequence ==
  (Direct /\ AtReturn("startModem") /\ args[2] = 0 /\ ValidChannel(args[1]))
    => /\ WellFramed(bus)
       /\ Transactions(bus) = << <<54>>, initData, <<62, 137>>,
                                 <<10, channels[args[1] + 1]>>, <<52>> >>

C1_Witness ==
  Direct /\ AtReturn("startModem") /\ args = <<16, 0, 11>>

(***************************************************************************)
(* C2.  For every channel c in 0..16 and power p in 0..10,                 *)
(* startModem(c, Transmit, p) writes powerTable[p] to the power register,  *)
(* channelTable[c] to the channel register and 0x35 as the mode; c = 16    *)
(* resolves to 0x37 and p = 10 to 0xC0.                                    *)
(***************************************************************************)
C2_StartModemTransmitValues ==
  (Direct /\ AtReturn("startModem") /\ args[2] = 1
     /\ ValidChannel(args[1]) /\ ValidPower(args[3]))
    => LET T == Transactions(bus) IN
       /\ Len(T) = 5
       /\ T[3] = <<62, powers[args[3] + 1]>>
       /\ T[4] = <<10, channels[args[1] + 1]>>
       /\ T[5] = <<53>>
       /\ (args[1] = 16 => T[4][2] = 55)
       /\ (args[3] = 10 => T[3][2] = 192)

C2_Witness ==
  Direct /\ AtReturn("startModem") /\ args = <<16, 1, 10>>

(***************************************************************************)
(* C3.  For every valid c2, changeChannel(c2) called after startModem      *)
(* issues exactly four framed transactions in the order stop, power        *)
(* register write, channel register write with channelTable[c2], mode      *)
(* write; it never re-emits the 48-byte configuration blob, and on return  *)
(* the stored channel equals c2.                                           *)
(***************************************************************************)
C3_ChangeChannelSequence ==
  (Direct /\ started /\ AtReturn("changeChannel") /\ ValidChannel(args[1]))
    => LET T == Transactions(bus) IN
       /\ WellFramed(bus)
       /\ Len(T) = 4
       /\ T[1] = <<54>>
       /\ Len(T[2]) = 2 /\ T[2][1] = 62
       /\ T[3] = <<10, channels[args[1] + 1]>>
       /\ T[4] = <<ModeCode(_transmit)>>
       /\ CountOf(T, initData) = 0
       /\ _channel = args[1]

C3_Witness ==
  Direct /\ started /\ AtReturn("changeChannel") /\ args[1] = 16 /\ _channel = 16
    /\ _transmit = 1

(***************************************************************************)
(* C4.  The power-register value changeChannel writes follows the stored   *)
(* direction and power as in startModem: powerTable[power] when the stored *)
(* direction is Transmit, the fixed receive-power code 0x89 when it is     *)
(* Receive; so changeChannel writes the power value the startModem before  *)
(* it wrote.                                                               *)
(***************************************************************************)
C4_ChangeChannelPowerAsStartModem ==
  (Direct /\ started /\ AtReturn("changeChannel")
     /\ ValidChannel(_channel) /\ ValidPower(_power))
    => Transactions(bus)[2] =
         <<62, IF _transmit # 0 THEN powers[_power + 1] ELSE 137>>

(***************************************************************************)
(* C5.  keepAlive() issues exactly one framed transaction holding exactly  *)
(* one byte: 0x35 if the stored direction is Transmit, otherwise 0x34; no  *)
(* stop command, no power register, no channel register.                   *)
(***************************************************************************)
C5_KeepAliveOneModeByte ==
  (Direct /\ AtReturn("keepAlive"))
    => /\ WellFramed(bus)
       /\ Transactions(bus) = << <<ModeCode(_transmit)>> >>
       /\ Len(SelectSeq(bus, LAMBDA ev : ev[1] = "MOSI")) = 1

C5_Witness ==
  Direct /\ started /\ AtReturn("keepAlive") /\ _transmit = 1 /\ bus # << >>

(***************************************************************************)
(* C6.  An out-of-range ordinal is rejected: startModem or changeChannel   *)
(* called with channel > 16, or startModem called with power > 10, never   *)
(* sends a register value read from outside the 17-entry channel table or  *)
(* the 11-entry power table, and leaves the stored direction, channel and  *)
(* power at their previous values.                                         *)
(***************************************************************************)
OutOfRangeCall ==
  /\ fn = "none"
  /\ fn' \in {"startModem", "changeChannel"}
  /\ \/ ~ValidChannel(args'[1])
     \/ fn' = "startModem" /\ ~ValidPower(args'[3])

C6_OutOfRangeRejected ==
  /\ [][OutOfRangeCall => handle' = handle]_vars
  /\ [](~oobSent)

(***************************************************************************)
(* C7.  After any sequence of startModem, changeChannel and keepAlive      *)
(* calls that begins with startModem (valid arguments), at every return    *)
(* what has been written agrees with the handle: the last channel-register *)
(* value written is channelTable[stored channel], the last command byte is *)
(* the mode-enable code of the stored direction, and when the stored       *)
(* direction is Transmit the last power-register value written is          *)
(* powerTable[stored power].                                               *)
(***************************************************************************)
C7_WrittenAgreesWithHandle ==
  (started /\ fn = "none" /\ ValidChannel(_channel)
     /\ (_transmit # 0 => ValidPower(_power)))
    => /\ chanWritten = channels[_channel + 1]
       /\ lastStrobe = ModeCode(_transmit)
       /\ (_transmit # 0 => paWritten = powers[_power + 1])

\* keepAlive has just returned on a handle whose channel was changed after
\* startModem.
C7_Witness ==
  /\ Direct /\ started /\ fn = "none" /\ args = <<0, 0, 0>> /\ bus # << >>
  /\ _transmit = 1 /\ _channel = 16 /\ _power = 10
  /\ chanWritten = 55 /\ paWritten = 192 /\ lastStrobe = 53

(***************************************************************************)
(* C8.  Bus framing: a byte is transferred only while the select line is   *)
(* low and an SPI transaction is open; and whenever no operation is        *)
(* executing after startModem has been called, the select line is high and *)
(* no SPI transaction is open.                                             *)
(***************************************************************************)
ByteTransferred ==
  /\ Len(bus') = Len(bus) + 1
  /\ bus'[Len(bus')][1] = "MOSI"

C8_BusFraming ==
  /\ [][ByteTransferred => (pinLevel = LOW /\ spiTxn /\ spiBegun)]_vars
  /\ []((started /\ fn = "none") => (pinLevel = HIGH /\ ~spiTxn))

C8_Witness ==
  started /\ fn = "none" /\ pinLevel = HIGH /\ ~spiTxn /\ Len(bus) > 50

(***************************************************************************)
(* C9.  In the example application, after startModem has returned,         *)
(* keepAlive is called at an interval no greater than 500 ms: the time     *)
(* from the return of startModem to the first keepAlive, and between two   *)
(* consecutive keepAlive calls, never exceeds 500 ms.                      *)
(***************************************************************************)
ModemStarted == started /\ fn # "startModem"

C9_KeepAliveWithin500ms ==
  ModemStarted => sinceAlive <= 500

(***************************************************************************)
(* C10.  In every execution of the example application, startModem(6,      *)
(* Receive, 0) is called exactly once and before any other transceiver     *)
(* operation; the bus trace is one five-transaction startup sequence       *)
(* followed only by single-byte 0x34 transactions, so channelTable[6]      *)
(* (0x0F) and the receive-power code (0x89) are each written exactly once  *)
(* however many keepAlive calls follow.  (The trace changes only inside a  *)
(* call, so it is read at every return.)                                   *)
(***************************************************************************)
C10_StartOnceThenKeepAlives ==
  /\ \A k \in 1..Len(appCalls) :
       appCalls[k] = IF k = 1 THEN <<"startModem", 6, 0, 0>> ELSE <<"keepAlive", 0, 0, 0>>
  /\ (appPc \in {"loop", "loop:check", "loop:timer", "loop:return"}) => Len(appCalls) >= 1
  /\ (fn # "none" \/ started) => Len(appCalls) >= 1
  /\ (AtReturn("startModem") \/ AtReturn("keepAlive")) =>
       LET T == Transactions(bus) IN
       /\ WellFramed(bus)
       /\ Len(T) = 5 + (Len(appCalls) - 1)
       /\ SubSeq(T, 1, 5) = << <<54>>, initData, <<62, 137>>, <<10, 15>>, <<52>> >>
       /\ \A k \in 6..Len(T) : T[k] = <<52>>
       /\ CountOf(T, <<10, 15>>) = 1
       /\ CountOf(T, <<62, 137>>) = 1

C10_Witness ==
  AtReturn("keepAlive") /\ Len(appCalls) = 4 /\ Len(Transactions(bus)) = 8

(***************************************************************************)
(* C11. keepAlive is idempotent on the wire: once startModem has been      *)
(* called, a keepAlive() that follows another keepAlive() with no          *)
(* startModem or changeChannel in between puts on the wires exactly what   *)
(* the one before it did: the same select-line writes and the same single  *)
(* mode byte, in the same order.                                           *)
(***************************************************************************)
C11_KeepAliveIdempotent ==
  (Direct /\ started /\ AtReturn("keepAlive") /\ prevAlive # << >>)
    => (bus = prevAlive /\ Len(SelectSeq(bus, LAMBDA e : e[1] = "MOSI")) = 1)

\* A transmitting handle on which a keepAlive following a keepAlive is about
\* to return.
C11_Witness ==
  /\ Direct /\ started /\ AtReturn("keepAlive")
  /\ prevAlive # << >>
  /\ _transmit = 1

(***************************************************************************)
(* C13. The radio is never left stopped.  When startModem or changeChannel *)
(* is about to return, the trace of the call holds the stop transaction    *)
(* and, after it, as the last transaction of the call, the mode-enable     *)
(* transaction of the stored direction; and at no operation boundary       *)
(* (between calls, or with a method about to return) is the stop code the  *)
(* last command strobe the chip was sent.                                  *)
(***************************************************************************)
StopThenMode(T) ==
  /\ Len(T) >= 2
  /\ T[Len(T)] = <<ModeCode(_transmit)>>
  /\ \E k \in 1..(Len(T) - 1) : T[k] = <<STOP>>

C13_NeverLeftStopped ==
  /\ (Direct /\ (AtReturn("startModem") \/ AtReturn("changeChannel")))
       => StopThenMode(Transactions(bus))
  /\ (fn = "none" \/ AtReturn(fn)) => lastStrobe # STOP

\* changeChannel on a receiving handle is about to return, Receive enabled.
C13_Witness ==
  /\ Direct /\ started /\ AtReturn("changeChannel")
  /\ lastStrobe = RX /\ _channel = 3
  /\ CountOf(Transactions(bus), <<STOP>>) = 1

(***************************************************************************)
(* C14. Frame conditions on the handle's fields.  No step of keepAlive     *)
(* (its entry included) changes the stored direction, channel or power; no *)
(* step of changeChannel changes the stored direction or power; a step     *)
(* that changes the stored direction or power is the entry of startModem;  *)
(* and no step changes the select-line pin number set by the constructor.  *)
(***************************************************************************)
C14_FieldFrames ==
  [][ /\ (fn = "keepAlive" \/ fn' = "keepAlive")
           => (_transmit' = _transmit /\ _channel' = _channel /\ _power' = _power)
      /\ (fn = "changeChannel" \/ fn' = "changeChannel")
           => (_transmit' = _transmit /\ _power' = _power)
      /\ (_transmit' # _transmit \/ _power' # _power)
           => (fn = "none" /\ fn' = "startModem")
      /\ (_channel' # _channel)
           => (fn = "none" /\ fn' \in {"startModem", "changeChannel"})
      /\ _enable_pin' = _enable_pin ]_vars

\* changeChannel has just been entered on a transmitting handle of power 7
\* and has stored a channel other than the one startModem was given.
C14_Witness ==
  /\ Direct /\ started /\ fn = "changeChannel" /\ pc = 1
  /\ _transmit = 1 /\ _power = 7 /\ _channel = 5
  /\ _enable_pin = enablePin

(***************************************************************************)
(* C15. Settle delay ordering.  A delay is executed only by startModem,    *)
(* for the settle time, once the bus has been acquired (SPI.begin), with   *)
(* the select line high, and before any byte of the call has been          *)
(* transferred; and when startModem transfers its first byte, the stop     *)
(* command, it has executed SPI.begin and then the settle delay.  So       *)
(* changeChannel and keepAlive execute no delay at all.                    *)
(***************************************************************************)
DelayExecuted == AtStmt("delay") /\ pc' = pc + 1

NoByteYet == \A k \in 1..Len(bus) : bus[k][1] # "MOSI"

\* Among the statements already executed: SPI.begin, then the settle delay.
Settled ==
  \E b \in 1..(pc - 1), d \in 1..(pc - 1) :
    /\ b < d
    /\ Body(fn)[b][1] = "SPI.begin"
    /\ Body(fn)[d] = Stmt("delay", "SettleDelay", 0)

C15_SettleDelayOrdering ==
  /\ [][DelayExecuted
          => (fn = "startModem" /\ Arg = SettleDelay /\ spiBegun
                /\ pinLevel = HIGH /\ NoByteYet)]_vars
  /\ [][(ByteTransferred /\ fn = "startModem" /\ NoByteYet)
          => (Arg = STOP /\ Settled)]_vars
  /\ [][(ByteTransferred /\ fn \in {"changeChannel", "keepAlive"}) => ~Settled]_vars

\* startModem has executed its delay and not yet opened the SPI transaction.
C15_Witness ==
  /\ Direct /\ fn = "startModem" /\ AtStmt("SPI.beginTransaction")
  /\ Settled /\ spiBegun /\ pinLevel = HIGH /\ NoByteYet

(***************************************************************************)
(* C12. Persistence round trip.  After a restart, once RestoreStates has   *)
(* restored accessory i, and for as long as setup() runs, an accessory     *)
(* that had a packet handled for it holds the state the last such packet   *)
(* set: its cell holds that state, gAddresses[i].state equals it, and its  *)
(* outputs have been driven to it.  (A packet is handled for an accessory  *)
(* when the handler has stored the state, set the outputs and updated the  *)
(* cell.)                                                                  *)
(***************************************************************************)
InRestoreStates ==
  appPc \in {"RestoreStates", "RestoreStates:SetOutputs", "RestoreStates:delay"}

\* RestoreStates has read the cell of accessory i and SetOutputs(i) has
\* returned.
Restored(i) == i < restoreIdx \/ (i = restoreIdx /\ appPc = "RestoreStates:delay")

OutputsShow(i, on) ==
  /\ pins[Acc(i).onPin] = (IF on THEN HIGH ELSE LOW)
  /\ pins[Acc(i).offPin] = (IF on THEN LOW ELSE HIGH)
  /\ servoPos[i] = (IF on THEN Acc(i).servoOnPos ELSE Acc(i).servoOffPos)

C12_StateRestoredAfterRestart ==
  InRestoreStates =>
    \A i \in Accessories :
      (Restored(i) /\ lastSet[i] # -1)
        => /\ eeprom[i] = lastSet[i]
           /\ gState[i] = (lastSet[i] = 1)
           /\ OutputsShow(i, lastSet[i] = 1)

\* All four accessories restored after a restart; before it the first was
\* last switched on and the second last switched off by packets, the third
\* saw none.
C12_Witness ==
  /\ appPc = "RestoreStates" /\ restoreIdx = NUM_ADDRESSES
  /\ lastSet[0] = 1 /\ gState[0] /\ pins[Acc(0).onPin] = HIGH
  /\ lastSet[1] = 0 /\ ~gState[1] /\ pins[Acc(1).offPin] = HIGH
  /\ lastSet[2] = -1

(***************************************************************************)
(* C17. Output exclusivity.  In every reachable state, the states between  *)
(* the two writes of SetOutputs included, no accessory has its on pin and  *)
(* its off pin both high; and when SetOutputs(addr) has returned, to       *)
(* RestoreStates or to the packet handler, exactly one of the two pins of  *)
(* accessory addr is high: the on pin if its state is on, the off pin if   *)
(* not.                                                                    *)
(***************************************************************************)
SetOutputsReturned == appPc \in {"RestoreStates:delay", "handler:update"}

C17_OutputExclusive ==
  /\ \A i \in Accessories :
       ~(pins[Acc(i).onPin] = HIGH /\ pins[Acc(i).offPin] = HIGH)
  /\ SetOutputsReturned
       => /\ (pins[Acc(outAddr).onPin] = HIGH) <=> gState[outAddr]
          /\ (pins[Acc(outAddr).offPin] = HIGH) <=> ~gState[outAddr]

\* A packet has switched the third accessory off: SetOutputs is between its
\* two writes, the on pin already low and the off pin not yet high.
C17_Witness ==
  /\ appPc = "handler:SetOutputs" /\ outAddr = 2 /\ outPc = 2
  /\ ~gState[2]
  /\ pins[Acc(2).onPin] = LOW /\ pins[Acc(2).offPin] = LOW
  /\ servoPos[2] = Acc(2).servoOnPos

(***************************************************************************)
(* C18. Frame condition of a received packet.  With d the decoder address  *)
(* (address - 1) * 4 + 1 + ((data & 0x06) >> 1) of the packet the handler  *)
(* was called with: no step of the handler changes the state, an output    *)
(* pin, the servo or the EEPROM cell of an accessory whose configured      *)
(* address is not d (so a packet that matches no accessory changes none);  *)
(* and when the handler returns, the accessory whose address is d has the  *)
(* state the packet carries in its state, its outputs and its cell.        *)
(***************************************************************************)
InHandler ==
  appPc \in {"handler", "handler:loop", "handler:SetOutputs", "handler:update"}

PacketDecoderAddress == (pkt[1] - 1) * 4 + 1 + ((pkt[3] \div 2) % 4)

PacketState == (IF pkt[2] THEN 1 ELSE 0) # (pkt[3] % 2)

Touched(i) ==
  \/ gState'[i] # gState[i]
  \/ pins'[Acc(i).onPin] # pins[Acc(i).onPin]
  \/ pins'[Acc(i).offPin] # pins[Acc(i).offPin]
  \/ servoPos'[i] # servoPos[i]
  \/ eeprom'[i] # eeprom[i]

HandlerReturns == appPc = "handler:loop" /\ hIdx = NUM_ADDRESSES

C18_PacketFrame ==
  /\ [][(InHandler /\ appPc' # "setup")
          => \A i \in Accessories :
               Touched(i) => Acc(i).address = PacketDecoderAddress]_vars
  /\ [](HandlerReturns
          => \A i \in Accessories :
               Acc(i).address = PacketDecoderAddress
                 => /\ gState[i] = PacketState
                    /\ eeprom[i] = (IF PacketState THEN 1 ELSE 0)
                    /\ OutputsShow(i, PacketState))

\* The handler is about to return from a packet for decoder address 3 that
\* switched the third accessory from off to on; the cells of the others are
\* as they were.
C18_Witness ==
  /\ HandlerReturns
  /\ pkt = <<1, TRUE, 4>>
  /\ gState[2] /\ eeprom[2] = 1 /\ lastSet[2] = 1
  /\ eeprom[0] = 0 /\ ~gState[0]
  /\ eeprom[1] = EepromBlank /\ eeprom[3] = EepromBlank

(***************************************************************************)
(* C16. Keepalive scheduling across the wrap of millis().  With millis()   *)
(* and timer unsigned 32-bit counters, at every evaluation of the loop's   *)
(* test, millis() - timer > 500 is true exactly when more than 500 ms have *)
(* gone by since the timer was set, whether or not millis() wrapped to 0   *)
(* in between: so it is never true early; never more than 501 ms go by     *)
(* since the timer was set without keepAlive having been called; and under *)
(* a fair loop a test that is due is followed by the call of keepAlive.    *)
(***************************************************************************)
TestDue == U32Gt(U32Sub(millis, timer), KeepAlivePeriod)

C16_KeepAliveAcrossWrap ==
  /\ [](appPc = "loop:check" => (TestDue <=> sinceAlive > KeepAlivePeriod))
  /\ [](sinceAlive <= KeepAlivePeriod + 1)
  /\ ((appPc = "loop:check" /\ sinceAlive > KeepAlivePeriod) ~> (fn = "keepAlive"))

\* keepAlive called with millis() wrapped past 0 since the timer was set.
C16_Witness ==
  /\ fn = "keepAlive" /\ pc = 1
  /\ timer[1] = Half - 1 /\ millis[1] = 0
  /\ sinceAlive = 0
  /\ U32Sub(millis, timer) = <<0, KeepAlivePeriod + 1>>
====
